---- MODULE Spec2Model ----
(***************************************************************************)
(* viadot: the Vidclub source (src/viadot/sources/vidclub.py).             *)
(*                                                                         *)
(* One extraction is  to_df -> total_load -> intervals -> get_response per *)
(* sub-window (check_connection, then the paging loop) -> concat ->        *)
(* drop_duplicates -> empty-result policy.  The server and the transport   *)
(* are the environment: every fetch either fails or returns one decoded    *)
(* JSON payload out of a small set.                                        *)
(***************************************************************************)
EXTENDS Integers, Sequences, FiniteSets, TLC

VARIABLES
    credentials,   \* self.credentials: the validated credentials of the instance
    pc,            \* position of the running call
    entry,         \* the public method that was called
    call,          \* its arguments
    period_start,  \* intervals: the loop variable (a date)
    starts,        \* intervals: list of sub-window starts (strings)
    ends,          \* intervals: list of sub-window ends (strings)
    win,           \* total_load: index of the sub-window in zip(starts, ends)
    dfs_list,      \* total_load: the per-window frames
    df,            \* the frame being built (get_response, then total_load)
    response,      \* get_response: the last decoded payload
    first_url,     \* get_response: the url check_connection returned
    ind,           \* get_response: TRUE when the first payload had a "next" key
    page,          \* get_response: the page counter
    length,        \* get_response: row count of the last batch
    log,           \* history: every request handed to the transport
    notices,       \* history: warnings emitted by the empty-result policy
    injected,      \* history: the frames handed to the metadata decorator
    velux_log,     \* history: every request VeluxClub handed to the transport
    outcome,       \* "none" while running, "ok", or the exception raised
    result         \* the value returned to the caller

vars == <<credentials, pc, entry, call, period_start, starts, ends, win, dfs_list, df,
          response, first_url, ind, page, length, log, notices, injected,
          velux_log, outcome, result>>

Null == "null"

\* None in a variable whose other values are records
NoValue == [none |-> TRUE]

-----------------------------------------------------------------------------
(* Bounds of the model.                                                    *)

\* a to_df window spans at most this many sub-windows
MaxWindows == 3
\* requests one extraction may hand to the transport
MaxFetches == 4
\* longest window, in days, given to intervals() called on its own
MaxSpanDays == 12
\* largest days_interval given to intervals() called on its own
MaxInterval == 4

-----------------------------------------------------------------------------
(* Calendar: datetime.strptime(s, "%Y-%m-%d") and date.strftime.           *)
(* A date string is its three zero-padded fields <<year, month, day>>; a   *)
(* date object is its ordinal (days since the day before BaseYear-01-01).  *)

\* the literal "2022-03-22" of check_connection
OldestDate == <<2022, 3, 22>>

BaseYear == OldestDate[1] - 1
Years == BaseYear .. (BaseYear + 2)

IsLeap(y) == (y % 4 = 0) /\ ((y % 100 # 0) \/ (y % 400 = 0))

DaysInMonth(y, m) ==
    IF m = 2 THEN (IF IsLeap(y) THEN 29 ELSE 28)
    ELSE IF m \in {4, 6, 9, 11} THEN 30 ELSE 31

DaysInYear(y) == IF IsLeap(y) THEN 366 ELSE 365

RECURSIVE DaysBeforeYear(_)
DaysBeforeYear(y) ==
    IF y <= BaseYear THEN 0 ELSE DaysBeforeYear(y - 1) + DaysInYear(y - 1)

RECURSIVE DaysBeforeMonth(_, _)
DaysBeforeMonth(y, m) ==
    IF m <= 1 THEN 0 ELSE DaysBeforeMonth(y, m - 1) + DaysInMonth(y, m - 1)

\* datetime.strptime(s, "%Y-%m-%d").date()
strptime(s) == DaysBeforeYear(s[1]) + DaysBeforeMonth(s[1], s[2]) + s[3]

\* date.strftime("%Y-%m-%d")
strftime(d) ==
    LET y == CHOOSE yy \in Years :
                 DaysBeforeYear(yy) < d /\ d <= DaysBeforeYear(yy) + DaysInYear(yy)
        r == d - DaysBeforeYear(y)
        m == CHOOSE mm \in 1..12 :
                 DaysBeforeMonth(y, mm) < r
                 /\ r <= DaysBeforeMonth(y, mm) + DaysInMonth(y, mm)
    IN  <<y, m, r - DaysBeforeMonth(y, m)>>

\* Python's < on two date strings: lexicographic, field by field
StrLess(a, b) ==
    \/ a[1] < b[1]
    \/ a[1] = b[1] /\ a[2] < b[2]
    \/ a[1] = b[1] /\ a[2] = b[2] /\ a[3] < b[3]

Floor == strptime(OldestDate)

Min(a, b) == IF a < b THEN a ELSE b

-----------------------------------------------------------------------------
(* Frames.  A decoded batch is a list of rows, a row a list of cells.  A   *)
(* frame is a list of frame rows; a frame row remembers whether its cells  *)
(* sit under the batch's own column labels (t = FALSE) or under the        *)
(* positional labels a transposition produces (t = TRUE), so that rows of  *)
(* the two kinds never compare equal after a concat.                       *)

\* pd.DataFrame(batch)
DataFrame(batch) == [i \in 1..Len(batch) |-> [t |-> FALSE, c |-> batch[i]]]

\* DataFrame.transpose(): rows and columns swapped
transpose(f) ==
    IF f = <<>> THEN <<>>
    ELSE [j \in 1..Len(f[1].c) |->
             [t |-> ~f[1].t, c |-> [i \in 1..Len(f) |-> f[i].c[j]]]]

\* df.shape[0]
shape0(f) == Len(f)

\* a concat that puts the newer frame first
concat_newest_first(a, b) == b \o a

\* pd.concat((a, b), axis=0)
concat(a, b) == a \o b

RECURSIVE concat_all(_)
\* pd.concat(dfs_list, axis=0, ignore_index=True)
concat_all(fs) == IF fs = <<>> THEN <<>> ELSE concat(fs[1], concat_all(Tail(fs)))

RECURSIVE drop_duplicates(_)
\* DataFrame.drop_duplicates(): the first occurrence of every row is kept
drop_duplicates(f) ==
    IF f = <<>> THEN <<>>
    ELSE LET init == drop_duplicates(SubSeq(f, 1, Len(f) - 1))
             last == f[Len(f)]
         IN  IF \E i \in 1..Len(init) : init[i] = last THEN init
             ELSE Append(init, last)

\* df.empty
empty(f) == Len(f) = 0

Rows(f) == {f[i] : i \in 1..Len(f)}

-----------------------------------------------------------------------------
(* The environment: what callers pass and what the server answers.         *)

Sources == {"jobs", "product", "company", "survey", "bogus"}
IfEmptyModes == {"fail", "skip", "warn"}

\* total_load's default days_interval, the one to_df always runs with
DefaultDaysInterval == 30

Day(k) == strftime(Floor + k)

\* to_df: windows around the historical floor, up to MaxWindows sub-windows
ToDfFromDates == {Day(k) : k \in {-1, 0}} \cup {<<BaseYear, 12, 31>>}
ToDfToDates ==
    {Day(k) : k \in {-1, 0}}
    \cup {Day(DefaultDaysInterval * w + 1) : w \in 1..(MaxWindows - 1)}

\* intervals() called on its own
IntervalsFromDates == {Day(k) : k \in {-1, 0, 1}}
IntervalsToDates == {Day(k) : k \in (-1)..MaxSpanDays}

\* total_load's default region, the one to_df always runs with
DefaultRegion == "all"

\* total_load() called on its own: a dated and the undated source, a window
\* of one or of two sub-windows, the default region and another one
TotalLoadSources == {"jobs", "survey"}
TotalLoadToDates == {Day(0), Day(DefaultDaysInterval + 1)}
Regions == {DefaultRegion, "pl"}

\* build_query() called on its own: the sources of to_df, the empty string
\* and a proper substring of "survey"
BuildQuerySources == Sources \cup {"", "sur"}

\* a batch of n one-column rows <<1>>, ..., <<n>>
RECURSIVE Batch(_)
Batch(n) == IF n = 0 THEN <<>> ELSE Append(Batch(n - 1), <<n>>)

\* the page sizes (limit) callers ask for, and the row counts the server
\* answers with: below, at and above a page of either size
PageSizes == {1, 2}
BatchSizes == {0, 1, 2}

Batches == {Batch(n) : n \in BatchSizes}

\* Decoded payloads.  kind "dict": a JSON object with the keys `keys`, whose
\* "data" member (when present) is `data`; a JSON object without "data" is
\* column-oriented and pd.DataFrame makes the rows `data` of it.  kind
\* "list": a bare JSON list of row objects `data`, each with the field
\* names `cols`.
Payloads ==
    [kind : {"dict"}, keys : {{"data"}, {"data", "next"}}, data : Batches, cols : {{"id"}}]
    \cup [kind : {"dict"}, keys : {{"id"}}, data : {Batch(1)}, cols : {{"id"}}]
    \cup [kind : {"list"}, keys : {{}}, data : Batches, cols : {{"id"}}]

\* what handle_api_response does with one request
Fail == [kind |-> "fail"]
TransportOutcomes == {Fail} \cup Payloads

-----------------------------------------------------------------------------
(* Vidclub.__init__                                                        *)

\* the fields of VidclubCredentials (lines 20-22), both required
CredentialFields == {"url", "token"}

\* a credentials dict is the set of keys it has a (non-empty) value for; the
\* empty dict is falsy and is replaced by the config's entry at line 47
CredentialDicts == (SUBSET (CredentialFields \cup {"name"})) \ {{}}

\* line 51:  not credentials.get('url') and credentials.get('token')
\* (`not` binds tighter than `and`)
credentials_missing(given) == ~("url" \in given) /\ ("token" \in given)

\* line 54: VidclubCredentials(**credentials) wants every field
VidclubCredentials_accepts(given) == CredentialFields \subseteq given

\* line 54: dict(VidclubCredentials(**credentials)) keeps the fields only
validated_creds(given) == given \cap CredentialFields

-----------------------------------------------------------------------------
(* Vidclub.intervals                                                       *)

\* an intervals without lines 128-129
intervals_invalid_unchecked(from_date, to_date) == FALSE

\* lines 126-129: delta.days < 0
intervals_invalid(from_date, to_date) == strptime(to_date) - strptime(from_date) < 0

\* line 136: the loop condition
intervals_continue(ps, end_date) == ps < end_date

\* a step that is not clamped to the end of the window
period_end_unclamped(ps, days_interval, end_date) == ps + days_interval

\* line 137: the end of the period that starts at ps
period_end_of(ps, days_interval, end_date) == Min(ps + days_interval, end_date)

\* lines 141-143: the degenerate window
intervals_fixup(ss, es, from_date, to_date) ==
    IF Len(ss) = 0 /\ Len(es) = 0
    THEN <<Append(ss, from_date), Append(es, to_date)>>
    ELSE <<ss, es>>

-----------------------------------------------------------------------------
(* Vidclub.build_query, check_connection and the head of get_response      *)

ValidSources == {"jobs", "product", "company", "survey"}

\* every s for which Python's  s in "survey"  is true
SubstringsOfSurvey ==
    {"", "s", "u", "r", "v", "e", "y", "su", "ur", "rv", "ve", "ey",
     "sur", "urv", "rve", "vey", "surv", "urve", "rvey", "surve", "urvey",
     "survey"}

\* a build_query that always asks for the default region
build_query_default_region(from_date, to_date, items_per_page, source, region) ==
    IF source \in {"jobs", "product", "company"}
    THEN [raises |-> "", source |-> source, query |-> "dated",
          from |-> from_date, to |-> to_date, region |-> DefaultRegion,
          limit |-> items_per_page]
    ELSE IF source \in SubstringsOfSurvey
    THEN [raises |-> "", source |-> source,
          query |-> "language=en&type=question",
          from |-> <<>>, to |-> <<>>, region |-> "", limit |-> 0]
    ELSE [raises |-> "ValidationError", source |-> source, query |-> "",
          from |-> <<>>, to |-> <<>>, region |-> "", limit |-> 0]

\* the url build_query returns (raises = "" ) or the exception it raises
build_query(from_date, to_date, items_per_page, source, region) ==
    IF source \in {"jobs", "product", "company"}
    THEN [raises |-> "", source |-> source, query |-> "dated",
          from |-> from_date, to |-> to_date, region |-> region,
          limit |-> items_per_page]
    ELSE IF source \in SubstringsOfSurvey
    THEN [raises |-> "", source |-> source,
          query |-> "language=en&type=question",
          from |-> <<>>, to |-> <<>>, region |-> "", limit |-> 0]
    ELSE [raises |-> "ValidationError", source |-> source, query |-> "",
          from |-> <<>>, to |-> <<>>, region |-> "", limit |-> 0]

\* the parameters build_query declares, and the keywords check_connection
\* passes to it: api_url is passed and not declared, so the call as written
\* raises TypeError before any url is built
build_query_parameters == {"from_date", "to_date", "items_per_page", "source", "region"}
check_connection_keywords ==
    {"source", "from_date", "to_date", "api_url", "items_per_page", "region"}
call_binds == check_connection_keywords \subseteq build_query_parameters

\* get_response, line 226
source_invalid(source) == source \notin ValidSources

\* a check_connection without line 175
before_oldest_unchecked(from_date) == FALSE

\* check_connection, line 175: a comparison of strings
before_oldest(from_date) == StrLess(from_date, OldestDate)

\* check_connection, line 178: a comparison of strings
to_before_from(from_date, to_date) == StrLess(to_date, from_date)

\* lines 241-246: the keys the pagination style is read from
\* (a bare list is asked for the keys of its first element)
keys_list(r) ==
    IF r.kind = "dict" THEN r.keys
    ELSE IF r.kind = "list" THEN r.cols
    ELSE {}

\* line 244: response[0] of an empty list
keys_list_raises(r) == r.kind = "list" /\ r.data = <<>>

\* a pagination style remembered from the first walk of the instance
classify_cached(keys) ==
    IF log = <<>> THEN "next" \in keys ELSE "next" \in log[1].keys

\* lines 248-251
classify(keys) == "next" \in keys

\* lines 270-271: only the product endpoint is transposed
page_frame(source, batch) ==
    IF source = "product" THEN transpose(DataFrame(batch)) ELSE DataFrame(batch)

\* a loop that never looks at the batch
walk_continues_always(len, items_per_page) == TRUE

\* a loop that goes on until an empty batch
walk_continues_nonempty(len, items_per_page) == len > 0

\* line 258: the loop goes on while the last batch is exactly a full page
walk_continues(len, items_per_page) == len = items_per_page

-----------------------------------------------------------------------------
(* Collaborators that live outside the engine                              *)

\* Source._handle_if_empty: what the empty-result policy does in each mode
handle_if_empty(if_empty) ==
    IF if_empty = "fail" THEN "EmptyResultError"
    ELSE IF if_empty = "skip" THEN "SKIP"
    ELSE "warned"

MetadataColumns == <<"_viadot_source", "_viadot_downloaded_at_utc">>

\* @add_viadot_metadata_columns: the frame to_df returned, plus two columns
add_viadot_metadata_columns(f) == [frame |-> f, added |-> MetadataColumns]

-----------------------------------------------------------------------------
(* State machine                                                           *)

self == <<credentials>>
callvars == <<entry, call>>
ivars == <<period_start, starts, ends>>
lvars == <<win, dfs_list>>
wvars == <<df, response, first_url, ind, page, length>>
hist == <<log, notices, injected>>

\* before __init__ has run
Init ==
    /\ credentials = {}
    /\ pc = "new"
    /\ entry = Null
    /\ call = NoValue
    /\ period_start = 0
    /\ starts = <<>>
    /\ ends = <<>>
    /\ win = 0
    /\ dfs_list = <<>>
    /\ df = <<>>
    /\ response = NoValue
    /\ first_url = NoValue
    /\ ind = FALSE
    /\ page = 0
    /\ length = 0
    /\ log = <<>>
    /\ notices = <<>>
    /\ injected = <<>>
    /\ velux_log = <<>>
    /\ outcome = "none"
    /\ result = NoValue

\* an exception leaves the call
Raise(e) ==
    /\ pc' = "done"
    /\ outcome' = e
    /\ result' = NoValue

\* __init__, lines 47-63, called with a credentials dict that has the keys
\* `given`: the check of line 51, then the pydantic model of line 54
Construct ==
    /\ pc = "new"
    /\ \E given \in CredentialDicts :
          /\ entry' = "__init__"
          /\ call' = [credentials |-> given]
          /\ IF credentials_missing(given)
             THEN /\ Raise("CredentialError")
                  /\ UNCHANGED credentials
             ELSE IF ~VidclubCredentials_accepts(given)
             THEN /\ Raise("pydantic.ValidationError")
                  /\ UNCHANGED credentials
             ELSE /\ pc' = "idle"
                  /\ credentials' = validated_creds(given)
                  /\ UNCHANGED <<outcome, result>>
    /\ UNCHANGED <<velux_log, ivars, lvars, wvars, hist>>

\* intervals, lines 117-135: parse, validate, set up the loop
IntervalsEnter(from_date, to_date) ==
    IF intervals_invalid(from_date, to_date)
    THEN /\ Raise("ValidationError")
         /\ UNCHANGED ivars
    ELSE /\ pc' = "intervals"
         /\ period_start' = strptime(from_date)
         /\ starts' = <<>>
         /\ ends' = <<>>
         /\ UNCHANGED <<outcome, result>>

\* to_df (line 362) calls total_load, which first calls intervals (line 304)
ToDf ==
    /\ pc = "idle"
    /\ \E source \in Sources, from_date \in ToDfFromDates, to_date \in ToDfToDates,
          limit \in PageSizes, if_empty \in IfEmptyModes :
          /\ entry' = "to_df"
          /\ call' = [source |-> source, from_date |-> from_date,
                      to_date |-> to_date, items_per_page |-> limit,
                      region |-> DefaultRegion,
                      days_interval |-> DefaultDaysInterval,
                      if_empty |-> if_empty]
          /\ IntervalsEnter(from_date, to_date)
    /\ UNCHANGED <<self, velux_log, lvars, wvars, hist>>

\* total_load called on its own (lines 279-306), with its default
\* days_interval: it first calls intervals (line 304)
TotalLoad ==
    /\ pc = "idle"
    /\ \E source \in TotalLoadSources, to_date \in TotalLoadToDates,
          items_per_page \in PageSizes, region \in Regions :
          /\ entry' = "total_load"
          /\ call' = [source |-> source, from_date |-> OldestDate,
                      to_date |-> to_date, items_per_page |-> items_per_page,
                      region |-> region,
                      days_interval |-> DefaultDaysInterval,
                      if_empty |-> Null]
          /\ IntervalsEnter(OldestDate, to_date)
    /\ UNCHANGED <<self, velux_log, lvars, wvars, hist>>

\* intervals called on its own
Intervals ==
    /\ pc = "idle"
    /\ \E from_date \in IntervalsFromDates, to_date \in IntervalsToDates,
          days_interval \in 1..MaxInterval :
          /\ entry' = "intervals"
          /\ call' = [source |-> Null, from_date |-> from_date,
                      to_date |-> to_date, items_per_page |-> 0,
                      region |-> Null,
                      days_interval |-> days_interval,
                      if_empty |-> Null]
          /\ IntervalsEnter(from_date, to_date)
    /\ UNCHANGED <<self, velux_log, lvars, wvars, hist>>

\* build_query called on its own, lines 89-97
BuildQuery ==
    /\ pc = "idle"
    /\ \E source \in BuildQuerySources, from_date \in IntervalsFromDates,
          to_date \in ToDfToDates, items_per_page \in PageSizes :
          LET url == build_query(from_date, to_date, items_per_page, source,
                                 DefaultRegion)
          IN  /\ entry' = "build_query"
              /\ call' = [source |-> source, from_date |-> from_date,
                          to_date |-> to_date, items_per_page |-> items_per_page,
                          region |-> DefaultRegion,
                          days_interval |-> 0,
                          if_empty |-> Null]
              /\ pc' = "done"
              /\ outcome' = (IF url.raises # "" THEN url.raises ELSE "ok")
              /\ result' = (IF url.raises # "" THEN NoValue ELSE url)
    /\ UNCHANGED <<self, velux_log, ivars, lvars, wvars, hist>>

\* a loop whose next period starts the day after the previous one ended
IntervalsStepDisjoint ==
    /\ pc = "intervals"
    /\ intervals_continue(period_start, strptime(call.to_date))
    /\ LET period_end == period_end_of(period_start, call.days_interval,
                                       strptime(call.to_date))
       IN  /\ starts' = Append(starts, strftime(period_start))
           /\ ends' = Append(ends, strftime(period_end))
           /\ period_start' = period_end + 1
    /\ UNCHANGED <<self, velux_log, pc, callvars, lvars, wvars, hist, outcome, result>>

\* intervals, lines 136-140: one turn of the loop
IntervalsStep ==
    /\ pc = "intervals"
    /\ intervals_continue(period_start, strptime(call.to_date))
    /\ LET period_end == period_end_of(period_start, call.days_interval,
                                       strptime(call.to_date))
       IN  /\ starts' = Append(starts, strftime(period_start))
           /\ ends' = Append(ends, strftime(period_end))
           /\ period_start' = period_end
    /\ UNCHANGED <<self, velux_log, pc, callvars, lvars, wvars, hist, outcome, result>>

\* intervals, lines 141-144, and for total_load lines 308-310
IntervalsReturn ==
    /\ pc = "intervals"
    /\ ~intervals_continue(period_start, strptime(call.to_date))
    /\ LET fx == intervals_fixup(starts, ends, call.from_date, call.to_date)
       IN  /\ starts' = fx[1]
           /\ ends' = fx[2]
           /\ IF entry = "intervals"
              THEN /\ pc' = "done"
                   /\ outcome' = "ok"
                   /\ result' = [starts |-> fx[1], ends |-> fx[2]]
                   /\ UNCHANGED lvars
              ELSE /\ pc' = "get_response"
                   /\ win' = (IF Len(fx[1]) > 0 /\ Len(fx[2]) > 0 THEN 1 ELSE 0)
                   /\ dfs_list' = <<>>
                   /\ UNCHANGED <<outcome, result>>
    /\ UNCHANGED <<self, velux_log, callvars, period_start, wvars, hist>>

\* the sub-window get_response is called with (line 310, or lines 325-331)
Window == IF win = 0 THEN <<call.from_date, call.to_date>> ELSE <<starts[win], ends[win]>>

\* the payload a request is answered with; the server numbers its cursors
Decoded(o) ==
    [kind |-> o.kind, keys |-> o.keys, data |-> o.data, cols |-> o.cols,
     next |-> IF "next" \in o.keys THEN Len(log) + 1 ELSE 0]

\* the history entry of one request and of what came back; frame is the
\* frame get_response made of the payload and size its row count
Request(url, token, o, f) ==
    [win |-> win, url |-> url, token |-> token, kind |-> o.kind,
     keys |-> IF o.kind = "fail" THEN {} ELSE o.keys,
     nrows |-> IF o.kind = "fail" THEN 0 ELSE Len(o.data),
     frame |-> IF o.kind = "fail" THEN <<>> ELSE f,
     size |-> IF o.kind = "fail" THEN 0 ELSE shape0(f),
     next |-> IF o.kind = "fail" THEN 0 ELSE Decoded(o).next]

NoToken == <<"none", 0>>

\* line 332
total_load_result_keep(f) == f

\* total_load, line 332
total_load_result(f) == drop_duplicates(f)

\* to_df returns f: the wrapper of line 340 hands it to the decorator
Decorate(f) ==
    /\ injected' = Append(injected, f)
    /\ result' = add_viadot_metadata_columns(f)

\* an exception that is caught and turned into the frame built so far
ReturnPartial(e) ==
    /\ pc' = "done"
    /\ outcome' = "ok"
    /\ Decorate(df)
    /\ UNCHANGED <<wvars, lvars, notices>>

\* a raise inside get_response (no handler in lines 233-277, 312-318 or
\* 362): its locals are gone, nothing is returned
RaiseInWalk(e) ==
    /\ Raise(e)
    /\ UNCHANGED <<wvars, lvars, notices, injected>>

\* the loop goes on: the locals of get_response after a payload
Continue(r, url, i, p, f) ==
    /\ pc' = "paging"
    /\ response' = r
    /\ first_url' = url
    /\ ind' = i
    /\ page' = p
    /\ length' = shape0(f)
    /\ df' = f
    /\ UNCHANGED <<lvars, notices, injected, outcome, result>>

\* a to_df that lets SKIP escape
ToDfReturnNoCatch(loaded) ==
    LET policy == handle_if_empty(call.if_empty)
    IN  IF empty(loaded) /\ policy # "warned"
        THEN /\ Raise(policy)
             /\ UNCHANGED <<notices, injected>>
        ELSE /\ pc' = "done"
             /\ outcome' = "ok"
             /\ notices' = IF empty(loaded) THEN Append(notices, "warning")
                           ELSE notices
             /\ Decorate(loaded)

\* a to_df that applies the policy without asking df.empty
ToDfReturnUnguarded(loaded) ==
    LET policy == handle_if_empty(call.if_empty)
    IN  IF policy = "EmptyResultError"
        THEN /\ Raise("EmptyResultError")
             /\ UNCHANGED <<notices, injected>>
        ELSE /\ pc' = "done"
             /\ outcome' = "ok"
             /\ notices' = IF policy = "warned"
                           THEN Append(notices, "warning") ELSE notices
             /\ Decorate(
                              IF policy = "SKIP" THEN DataFrame(<<>>) ELSE loaded)

\* a to_df that returns the empty frame under skip whatever was loaded
ToDfReturnSkipAlways(loaded) ==
    LET policy == handle_if_empty(call.if_empty)
    IN  IF empty(loaded) /\ policy = "EmptyResultError"
        THEN /\ Raise("EmptyResultError")
             /\ UNCHANGED <<notices, injected>>
        ELSE /\ pc' = "done"
             /\ outcome' = "ok"
             /\ notices' = IF empty(loaded) /\ policy = "warned"
                           THEN Append(notices, "warning") ELSE notices
             /\ Decorate(
                              IF policy = "SKIP" THEN DataFrame(<<>>) ELSE loaded)

\* a to_df without the decorator of line 340
ToDfReturnUndecorated(loaded) ==
    LET policy == handle_if_empty(call.if_empty)
    IN  IF empty(loaded) /\ policy = "EmptyResultError"
        THEN /\ Raise("EmptyResultError")
             /\ UNCHANGED <<notices, injected>>
        ELSE /\ pc' = "done"
             /\ outcome' = "ok"
             /\ notices' = IF empty(loaded) /\ policy = "warned"
                           THEN Append(notices, "warning") ELSE notices
             /\ injected' = injected
             /\ result' = [frame |-> loaded, added |-> <<>>]

\* to_df, lines 364-370, and the decorator of line 340, on the frame
\* total_load returned
ToDfReturn(loaded) ==
    LET policy == handle_if_empty(call.if_empty)
    IN  IF empty(loaded) /\ policy = "EmptyResultError"
        THEN /\ Raise("EmptyResultError")
             /\ UNCHANGED <<notices, injected>>
        ELSE /\ pc' = "done"
             /\ outcome' = "ok"
             /\ notices' = IF empty(loaded) /\ policy = "warned"
                           THEN Append(notices, "warning") ELSE notices
             /\ Decorate(
                              IF empty(loaded) /\ policy = "SKIP"
                              THEN DataFrame(<<>>) ELSE loaded)

\* total_load, line 337, called on its own: the frame goes to the caller
TotalLoadReturn(loaded) ==
    /\ pc' = "done"
    /\ outcome' = "ok"
    /\ result' = [frame |-> loaded]
    /\ UNCHANGED <<notices, injected>>

\* total_load, lines 319-323: the frame after one more sub-window
total_load_frame(list) == IF Len(list) > 1 THEN concat_all(list) ELSE list[1]

\* get_response returns f (line 277): total_load appends and concatenates
\* (lines 319-323), then calls get_response for the next sub-window or
\* drops the duplicates and returns to to_df (lines 332-337)
Return(f) ==
    LET list == IF win = 0 THEN dfs_list ELSE Append(dfs_list, f)
        cat == IF win = 0 THEN f ELSE total_load_frame(list)
    IN  /\ dfs_list' = list
        /\ response' = NoValue
        /\ first_url' = NoValue
        /\ ind' = FALSE
        /\ page' = 0
        /\ length' = 0
        /\ IF win # 0 /\ win < Min(Len(starts), Len(ends))
           THEN /\ win' = win + 1
                /\ pc' = "get_response"
                /\ df' = cat
                /\ UNCHANGED <<notices, injected, outcome, result>>
           ELSE /\ win' = win
                /\ df' = total_load_result(cat)
                /\ IF entry = "total_load"
                   THEN TotalLoadReturn(total_load_result(cat))
                   ELSE ToDfReturn(total_load_result(cat))

\* get_response, lines 241-256 and 274-275: the first payload
FirstPayload(r, url) ==
    IF keys_list_raises(r)
    THEN RaiseInWalk("IndexError")
    ELSE IF "data" \in keys_list(r) /\ r.kind # "dict"
    THEN RaiseInWalk("TypeError")
    ELSE IF "data" \in keys_list(r)
            /\ walk_continues(shape0(DataFrame(r.data)), call.items_per_page)
    THEN Continue(r, url, classify(keys_list(r)), 1, DataFrame(r.data))
    ELSE Return(DataFrame(r.data))

\* check_connection, lines 193-198: the first request of a walk
FirstFetch(url) ==
    /\ Len(log) < MaxFetches
    /\ \E o \in TransportOutcomes :
          /\ log' = Append(log, Request(url, NoToken, o,
                                        IF o = Fail THEN <<>>
                                        ELSE DataFrame(o.data)))
          /\ IF o = Fail
             THEN RaiseInWalk("UpstreamRequestFailed")
             ELSE FirstPayload(Decoded(o), url)

\* get_response, lines 225-239, with check_connection, lines 175-191.
\* `binds` says whether the keyword call of build_query binds its arguments.
get_response(binds) ==
    /\ pc = "get_response"
    /\ LET from_date == Window[1]
           to_date == Window[2]
           url == build_query(from_date, to_date, call.items_per_page,
                              call.source, call.region)
       IN  IF source_invalid(call.source)
              \/ before_oldest(from_date)
              \/ to_before_from(from_date, to_date)
           THEN /\ RaiseInWalk("ValidationError")
                /\ UNCHANGED log
           ELSE IF ~binds
           THEN /\ RaiseInWalk("TypeError")
                /\ UNCHANGED log
           ELSE IF url.raises # ""
           THEN /\ RaiseInWalk(url.raises)
                /\ UNCHANGED log
           ELSE FirstFetch(url)
    /\ UNCHANGED <<self, velux_log, callvars, ivars>>

\* the first request of a sub-window's walk
GetResponse == get_response(TRUE)

\* a walker that keeps sending the cursor of the walk's first response
next_token_first(i, r, p) ==
    LET f == CHOOSE k \in 1..Len(log) :
                 /\ log[k].token = NoToken
                 /\ \A m \in (k + 1)..Len(log) : log[m].token # NoToken
    IN  IF i THEN <<"next", log[f].next>> ELSE <<"page", p + 1>>

\* a walker that asks for the page it already has before moving on
next_token_same_page(i, r, p) == IF i THEN <<"next", r.next>> ELSE <<"page", p>>

\* lines 259-264: the token of the next request
next_token(i, r, p) == IF i THEN <<"next", r.next>> ELSE <<"page", p + 1>>

\* get_response, lines 258-273: one turn of the paging loop
Page ==
    /\ pc = "paging"
    /\ IF ind /\ "next" \notin response.keys
       THEN /\ RaiseInWalk("KeyError")
            /\ UNCHANGED log
       ELSE /\ Len(log) < MaxFetches
            /\ \E o \in TransportOutcomes :
                  /\ log' = Append(log, Request(first_url,
                                next_token(ind, response, page), o,
                                IF o = Fail \/ "data" \notin o.keys THEN <<>>
                                ELSE page_frame(call.source, o.data)))
                  /\ IF o = Fail
                     THEN RaiseInWalk("UpstreamRequestFailed")
                     ELSE IF o.kind # "dict"
                     THEN RaiseInWalk("TypeError")
                     ELSE IF "data" \notin o.keys
                     THEN RaiseInWalk("KeyError")
                     ELSE LET df_page == page_frame(call.source, o.data)
                              p == IF ind THEN page ELSE page + 1
                          IN  IF walk_continues(shape0(df_page), call.items_per_page)
                              THEN Continue(Decoded(o), first_url, ind, p,
                                            concat(df, df_page))
                              ELSE Return(concat(df, df_page))
    /\ UNCHANGED <<self, velux_log, callvars, ivars>>

-----------------------------------------------------------------------------
(* VeluxClub.get_response (src/viadot/sources/velux_club.py).  The         *)
(* instance is taken as constructed; its walk follows next_page_url.       *)

\* to_date omitted
NoDate == <<>>

\* datetime.today(), some day after the windows asked for
Today == <<BaseYear + 2, 1, 1>>

VeluxToDates == {NoDate} \cup {Day(k) : k \in {-1, 0, 1}}

\* the limit VeluxClub.build_query writes into every url
VeluxLimit == 100

\* what the server answers VeluxClub with: a page with or without a
\* next_page_url, or a bare list
VeluxPayloads ==
    [kind : {"dict"}, keys : {{"data", "next_page_url"}}, data : {Batch(1)},
     cols : {{"id"}}, more : BOOLEAN]
    \cup [kind : {"list"}, keys : {{}}, data : {Batch(0), Batch(1)},
          cols : {{"id"}}, more : {FALSE}]

VeluxOutcomes == {Fail} \cup VeluxPayloads

\* lines 107-108: the formatted date of today is computed and dropped, so
\* to_date stays as it was passed
velux_to_date(to_date) == to_date

\* VeluxClub.build_query, lines 71-79: region is not written into the url
velux_build_query(source, from_date, to_date, region) ==
    IF source \in {"jobs", "product", "company"}
    THEN [raises |-> "", source |-> source, query |-> "dated",
          from |-> from_date, to |-> to_date, region |-> "",
          limit |-> VeluxLimit]
    ELSE IF source \in SubstringsOfSurvey
    THEN [raises |-> "", source |-> source,
          query |-> "language=en&type=question",
          from |-> <<>>, to |-> <<>>, region |-> "", limit |-> 0]
    ELSE [raises |-> "ValidationError", source |-> source, query |-> "",
          from |-> <<>>, to |-> <<>>, region |-> "", limit |-> 0]

\* an exception leaves VeluxClub.get_response
VeluxRaise(e) ==
    /\ Raise(e)
    /\ UNCHANGED <<df, response>>

\* VeluxClub.get_response returns f (line 156)
VeluxReturn(f, r) ==
    /\ pc' = "done"
    /\ outcome' = "ok"
    /\ result' = [frame |-> f]
    /\ df' = f
    /\ response' = r

\* the loop of line 144 goes on or get_response returns
VeluxAfterPage(f, o, r) ==
    IF o.more
    THEN /\ pc' = "velux_paging"
         /\ df' = f
         /\ response' = r
         /\ UNCHANGED <<outcome, result>>
    ELSE VeluxReturn(f, r)

\* one request of VeluxClub (lines 128-131 or 146-147) and what
\* get_response does with the answer (lines 133-154)
VeluxFetch(url, token) ==
    /\ Len(velux_log) < MaxFetches
    /\ \E o \in VeluxOutcomes :
          LET first == token = NoToken
              made == o # Fail /\ (first \/ o.kind = "dict")
              f == IF ~made THEN <<>>
                   ELSE IF first THEN DataFrame(o.data)
                   ELSE page_frame(call.source, o.data)
              r == IF o = Fail THEN NoValue
                   ELSE [kind |-> o.kind, keys |-> o.keys, data |-> o.data,
                         cols |-> o.cols, next |-> Len(velux_log) + 1]
          IN  /\ velux_log' = Append(velux_log,
                      [url |-> url, token |-> token, kind |-> o.kind, frame |-> f])
              /\ IF o = Fail
                 THEN VeluxRaise("UpstreamRequestFailed")
                 ELSE IF first /\ keys_list_raises(o)
                 THEN VeluxRaise("IndexError")
                 ELSE IF first /\ "data" \notin keys_list(o)
                 THEN VeluxReturn(f, r)
                 ELSE IF o.kind # "dict"
                 THEN VeluxRaise("TypeError")
                 ELSE VeluxAfterPage(IF first THEN f ELSE concat(df, f), o, r)

\* VeluxClub.get_response, lines 103-131: validation and the first request
VeluxGetResponse ==
    /\ pc = "new"
    /\ \E source \in Sources, from_date \in ToDfFromDates, to_date \in VeluxToDates :
          LET end == velux_to_date(to_date)
          IN  /\ entry' = "VeluxClub.get_response"
              /\ call' = [source |-> source, from_date |-> from_date,
                          to_date |-> to_date, items_per_page |-> VeluxLimit,
                          region |-> Null,
                          days_interval |-> 0,
                          if_empty |-> Null]
              /\ IF source_invalid(source)
                 THEN VeluxRaise("ValidationError") /\ UNCHANGED velux_log
                 ELSE IF strptime(from_date) - Floor < 0
                 THEN VeluxRaise("ValidationError") /\ UNCHANGED velux_log
                 ELSE IF end = NoDate
                 THEN VeluxRaise("TypeError") /\ UNCHANGED velux_log
                 ELSE IF strptime(end) - strptime(from_date) < 0
                 THEN VeluxRaise("ValidationError") /\ UNCHANGED velux_log
                 ELSE VeluxFetch(velux_build_query(source, from_date, end, Null),
                                 NoToken)
    /\ UNCHANGED <<self, ivars, lvars, first_url, ind, page, length, hist>>

\* VeluxClub.get_response, lines 144-152: one turn of the loop
VeluxPage ==
    /\ pc = "velux_paging"
    /\ VeluxFetch(velux_log[1].url, <<"next_page_url", response.next>>)
    /\ UNCHANGED <<self, callvars, ivars, lvars, first_url, ind, page, length, hist>>

Next ==
    \/ Construct
    \/ ToDf
    \/ TotalLoad
    \/ Intervals
    \/ BuildQuery
    \/ IntervalsStep
    \/ IntervalsReturn
    \/ GetResponse
    \/ Page
    \/ VeluxGetResponse
    \/ VeluxPage

\* Spec takes the keyword call of build_query (check_connection, lines
\* 184-191) to bind its arguments, so that a walk can start.
Spec == Init /\ [][Next]_vars

\* The call exactly as written: it passes api_url, which build_query does
\* not declare, so every get_response that passes validation ends in
\* TypeError before its first request.
GetResponseAsShipped == get_response(call_binds)

NextAsShipped ==
    \/ Construct
    \/ ToDf
    \/ TotalLoad
    \/ Intervals
    \/ BuildQuery
    \/ IntervalsStep
    \/ IntervalsReturn
    \/ GetResponseAsShipped

SpecAsShipped == Init /\ [][NextAsShipped]_vars

\* The server assumption of the termination argument: it does not go on
\* answering with full pages for ever.  Within the request budget of the
\* model that is: the answer to the last request is a failure or a batch
\* whose row count is not items_per_page.
ServerEventuallyShort ==
    Len(log') = MaxFetches =>
        \/ log'[MaxFetches].kind = "fail"
        \/ log'[MaxFetches].size # call.items_per_page

GetResponseEventuallyShort == GetResponse /\ ServerEventuallyShort

PageEventuallyShort == Page /\ ServerEventuallyShort

NextLive ==
    \/ Construct
    \/ ToDf
    \/ TotalLoad
    \/ Intervals
    \/ BuildQuery
    \/ IntervalsStep
    \/ IntervalsReturn
    \/ GetResponseEventuallyShort
    \/ PageEventuallyShort

\* what every turn of a loop changes: the position, the list of starts or
\* the list of requests
progress == <<pc, starts, log>>

\* a running loop takes its next turn (the code is sequential and every
\* request is a blocking call that returns or raises)
SpecLive ==
    /\ Init
    /\ [][NextLive]_vars
    /\ WF_progress(IntervalsStep)
    /\ WF_progress(IntervalsReturn)
    /\ WF_progress(PageEventuallyShort)

-----------------------------------------------------------------------------
(* Properties                                                              *)

\* intervals has returned its two lists (they stay as returned afterwards)
IntervalsReturned == pc \notin {"idle", "intervals"} /\ Len(starts) > 0

\* the calendar dates of sub-window i
WindowDates(i) == strptime(starts[i]) .. strptime(ends[i])

\* C1: for from <= to and N >= 1 the sub-windows intervals returns cover
\* exactly the dates from..to, each spans at most N days, and a window with
\* from = to comes back as the one sub-window (from, to).
C1_IntervalsCover ==
    IntervalsReturned =>
        /\ Len(starts) = Len(ends)
        /\ UNION {WindowDates(i) : i \in 1..Len(starts)}
              = strptime(call.from_date) .. strptime(call.to_date)
        /\ \A i \in 1..Len(starts) :
              /\ strptime(starts[i]) <= strptime(ends[i])
              /\ strptime(ends[i]) - strptime(starts[i]) <= call.days_interval
        /\ (call.from_date = call.to_date
               => starts = <<call.from_date>> /\ ends = <<call.to_date>>)

\* a window cut into three or more pieces across a month end, the last one
\* clamped to the end of the window
C1_Witness ==
    /\ entry = "intervals"
    /\ pc = "done"
    /\ outcome = "ok"
    /\ Len(starts) >= 3
    /\ strptime(ends[Len(ends)]) - strptime(starts[Len(starts)]) < call.days_interval
    /\ starts[1][2] # ends[Len(ends)][2]

\* the requests of sub-window w, in the order they were sent
WalkIdx(w) == {i \in 1..Len(log) : log[i].win = w}

\* the walk of sub-window w found a "data" key in its first payload
Paginated(w) ==
    \E i \in WalkIdx(w) :
        log[i].token = NoToken /\ log[i].kind = "dict" /\ "data" \in log[i].keys

\* get_response has returned for sub-window w
WalkReturned(w) == Len(dfs_list) >= w

LastOf(w) == CHOOSE i \in WalkIdx(w) : \A j \in WalkIdx(w) : j <= i

Delivered == entry = "to_df" /\ pc = "done" /\ outcome = "ok"

NoDuplicates(f) == \A i, j \in 1..Len(f) : f[i] = f[j] => i = j

C5_FloorRejected ==
    (entry = "to_df" /\ strptime(call.from_date) < Floor) =>
        /\ log = <<>>
        /\ pc \in {"intervals", "get_response", "done"}
        /\ (pc = "done" => outcome = "ValidationError")

\* one day before the floor, with everything else in order
C5_Witness ==
    /\ entry = "to_df"
    /\ strptime(call.from_date) = Floor - 1
    /\ strptime(call.to_date) > Floor
    /\ call.source \in ValidSources
    /\ Len(starts) > 0
    /\ pc = "done"
    /\ outcome = "ValidationError"
    /\ log = <<>>

\* C6: an unknown source, or a to_date earlier than from_date, ends in
\* ValidationError with no request sent; for to_date < from_date it is
\* intervals that raises, and it returns no sub-window.
C6_BadInputRejected ==
    /\ (entry \in {"to_df", "intervals"}
           /\ strptime(call.to_date) < strptime(call.from_date)) =>
          /\ pc = "done"
          /\ outcome = "ValidationError"
          /\ starts = <<>>
          /\ ends = <<>>
          /\ log = <<>>
    /\ (entry = "to_df" /\ call.source \notin ValidSources) =>
          /\ log = <<>>
          /\ pc \in {"intervals", "get_response", "done"}
          /\ (pc = "done" => outcome = "ValidationError")

\* an unknown source with a valid window of several sub-windows
C6_Witness ==
    /\ entry = "to_df"
    /\ call.source \notin ValidSources
    /\ strptime(call.from_date) >= Floor
    /\ Len(starts) >= 2
    /\ pc = "done"
    /\ outcome = "ValidationError"
    /\ log = <<>>

\* every payload so far was an unpaginated one (a bare list of rows)
Unpaginated == \A i \in 1..Len(log) : log[i].kind = "list"

\* C7: for source = survey (answered with unpaginated payloads) and any
\* valid window the extraction makes exactly one fetch, also when the
\* window is longer than days_interval.
C7_SurveyOneFetch ==
    (entry = "to_df" /\ call.source = "survey" /\ Unpaginated) =>
        /\ Len(log) <= 1
        /\ (Delivered => Len(log) = 1)

\* every sub-window was walked and the aggregate has no rows
ZeroRows ==
    /\ entry = "to_df"
    /\ pc = "done"
    /\ Len(starts) > 0
    /\ Len(dfs_list) = Len(starts)
    /\ df = <<>>

FirstOf(j) == CHOOSE i \in 1..j :
                  /\ log[i].token = NoToken
                  /\ \A k \in (i + 1)..j : log[k].token # NoToken

C11_MissingCredential ==
    (entry = "__init__" /\ ~(CredentialFields \subseteq call.credentials)) =>
        /\ pc = "done"
        /\ outcome = "CredentialError"
        /\ log = <<>>

\* C12: build_query returns a url for jobs, product, company and survey and
\* raises for every other source, the empty string and the proper
\* substrings of "survey" included.
C12_UnsupportedSource ==
    (entry = "build_query" /\ pc = "done") =>
        IF call.source \in ValidSources
        THEN outcome = "ok" /\ result.source = call.source
        ELSE outcome = "ValidationError"

\* every sub-window was walked and the aggregate has rows
SomeRows ==
    /\ entry = "to_df"
    /\ pc = "done"
    /\ Len(starts) > 0
    /\ Len(dfs_list) = Len(starts)
    /\ df # <<>>

C15_StopsOnlyOnShortPage ==
    \A w \in 1..Len(starts) :
        (entry = "to_df" /\ Paginated(w)) =>
            /\ \A i, j \in WalkIdx(w) :
                  i < j => log[i].size >= call.items_per_page
            /\ WalkReturned(w) => log[LastOf(w)].size < call.items_per_page

\* C16: for source = product every batch of a walk, the first page
\* included, enters the frame transposed; for every other source no batch
\* is transposed.
C16_ProductTransposed ==
    entry = "to_df" =>
        /\ \A r \in Rows(df) : r.t = (call.source = "product")
        /\ \A w \in 1..Len(dfs_list) :
              \A r \in Rows(dfs_list[w]) : r.t = (call.source = "product")

\* the first request of the walk of sub-window w
FirstReq(w) == CHOOSE i \in WalkIdx(w) : log[i].token = NoToken

\* C17: a walk whose first response is a mapping without a data key or a
\* bare list (the empty list included) returns the whole payload as its one
\* batch after exactly one fetch.
C17_UnpaginatedOneFetch ==
    \A w \in 1..Len(starts) :
        (/\ entry = "to_df"
         /\ WalkIdx(w) # {}
         /\ \/ log[FirstReq(w)].kind = "list"
            \/ log[FirstReq(w)].kind = "dict" /\ "data" \notin log[FirstReq(w)].keys)
        => /\ Cardinality(WalkIdx(w)) = 1
           /\ WalkReturned(w)
           /\ Len(dfs_list[w]) = log[FirstReq(w)].nrows

RECURSIVE FramesOf(_, _)
FramesOf(w, n) ==
    IF n = 0 THEN <<>>
    ELSE FramesOf(w, n - 1)
             \o (IF w = 0 \/ log[n].win = w THEN log[n].frame ELSE <<>>)

SpanDays == strptime(call.to_date) - strptime(call.from_date)

\* C22: for from < to and days_interval >= 1 intervals returns two lists
\* of ceil(days(to - from) / days_interval) entries each that form a chain:
\* the first start is from, the last end is to, the starts increase
\* strictly and each end is the next start.
C22_IntervalsChain ==
    (IntervalsReturned /\ SpanDays > 0) =>
        /\ Len(starts) = (SpanDays + call.days_interval - 1) \div call.days_interval
        /\ Len(ends) = Len(starts)
        /\ starts[1] = call.from_date
        /\ ends[Len(ends)] = call.to_date
        /\ \A i \in 1..(Len(starts) - 1) :
              /\ strptime(starts[i]) < strptime(starts[i + 1])
              /\ ends[i] = starts[i + 1]
        /\ \A i \in 1..Len(starts) : strptime(starts[i]) < strptime(ends[i])

\* a chain of four links whose last link is shorter than the others
C22_Witness ==
    /\ entry = "intervals"
    /\ pc = "done"
    /\ outcome = "ok"
    /\ Len(starts) = 4
    /\ SpanDays % call.days_interval # 0
    /\ call.days_interval > 1

C24_VeluxDefaultsAndChecks ==
    (entry = "VeluxClub.get_response" /\ call.source \in ValidSources) =>
        /\ (call.to_date = NoDate /\ strptime(call.from_date) >= Floor) =>
              /\ velux_log # <<>>
              /\ velux_log[1].url = velux_build_query(call.source,
                                         call.from_date, Today, call.region)
        /\ (\/ strptime(call.from_date) < Floor
            \/ /\ call.to_date # NoDate
               /\ strptime(call.to_date) < strptime(call.from_date)) =>
              /\ pc = "done"
              /\ outcome = "ValidationError"
              /\ velux_log = <<>>

\* under SpecAsShipped no request is ever sent and to_df never returns
AsShippedNeverFetches ==
    /\ log = <<>>
    /\ (entry = "to_df" /\ pc = "done") => outcome \in {"ValidationError", "TypeError"}

====
